---- MODULE Spec2Model ----
(***************************************************************************)
(* StoryBot: a four-stage LLM pipeline (researcher, simplifier,            *)
(* storywriter, educator) driven by StoryBot.create_story, with the        *)
(* configuration object that validates topics and resolves age bands.      *)
(*                                                                         *)
(* Python strings are modelled run-length encoded: a string is a sequence  *)
(* of runs [ch |-> c, n |-> k], k >= 1, adjacent runs having different     *)
(* characters, so that strings of 200 or 5000 characters are small values  *)
(* and len / strip / concatenation are computed as Python computes them.   *)
(***************************************************************************)
EXTENDS Integers, Sequences, FiniteSets, TLC

VARIABLES
    pc,        \* position of create_story: idle, the stage about to run, returned, raised
    args,      \* arguments of the current create_story call
    locals,    \* local variables of create_story assigned so far
    calls,     \* chain.invoke calls made in the current create_story call, in order,
               \* as the LLM saw them: the agent, its kwargs, the text answered or the failure
    outcome,   \* what the current create_story call gave its caller
    probe,     \* a direct call of the age resolver and what it gave back
    bot,       \* the StoryBot create_story runs on: self.agents, by name
    history,   \* an earlier create_story call its caller kept: arguments, LLM calls, outcome
    world,     \* the Python process: the environment's key, _config_instance, what
               \* get_config returned and the StoryBot constructions made so far
    ui         \* the last run of the Streamlit script

vars == <<pc, args, locals, calls, outcome, probe, bot, history, world, ui>>

\* the frame of create_story
pipeline == <<pc, args, locals, calls, outcome>>

\* what no step of create_story assigns
outside == <<probe, bot, history, world, ui>>

----------------------------------------------------------------------------
(* Bounds of the model *)

MaxPad == 1        \* most whitespace characters put before / after a topic
AgeMargin == 3     \* how far below 5 and above 100 the ages range
MaxBots == 2       \* most StoryBot constructions in one process
MaxGets == 2       \* most direct get_config calls in one process

----------------------------------------------------------------------------
(* Program constants *)

min_topic_length == 3
max_topic_length == 200
max_story_length == 5000
MinAge == 5
MaxAge == 100

----------------------------------------------------------------------------
(* Python str, run-length encoded *)

Rep(c, k) == IF k <= 0 THEN <<>> ELSE <<[ch |-> c, n |-> k]>>

Cat(s, t) ==
    IF s = <<>> THEN t
    ELSE IF t = <<>> THEN s
    ELSE IF s[Len(s)].ch = t[1].ch
         THEN SubSeq(s, 1, Len(s) - 1)
              \o <<[ch |-> t[1].ch, n |-> s[Len(s)].n + t[1].n]>>
              \o Tail(t)
         ELSE s \o t

RECURSIVE len(_)
len(s) == IF s = <<>> THEN 0 ELSE Head(s).n + len(Tail(s))

isspace(c) == c \in {" ", "\t", "\n"}

RECURSIVE lstrip(_)
lstrip(s) ==
    IF s # <<>> /\ isspace(Head(s).ch) THEN lstrip(Tail(s)) ELSE s

RECURSIVE rstrip(_)
rstrip(s) ==
    IF s # <<>> /\ isspace(s[Len(s)].ch) THEN rstrip(SubSeq(s, 1, Len(s) - 1)) ELSE s

strip(s) == rstrip(lstrip(s))

\* Python truthiness of a str
truthy(s) == s # <<>>

----------------------------------------------------------------------------
(* storybot_exceptions.py *)

\* Python None
None == [type |-> "NoneType"]

\* a message: the literal (or f-string) and the values formatted into it
Msg(fmt, fargs) == [fmt |-> fmt, args |-> fargs]

StoryBotException(type, message, error_code) ==
    [type |-> type, message |-> message, error_code |-> error_code]

APIKeyError(message) ==
    StoryBotException("APIKeyError", message, "API_KEY_ERROR") @@ [cause |-> None]

ValidationError(message, field) ==
    StoryBotException("ValidationError", message, "VALIDATION_ERROR")
        @@ [field |-> field, cause |-> None]

\* a slip: LLMError carries the label of AgentError
LLMError_agent_label(message, original_error) ==
    StoryBotException("LLMError", message, "AGENT_ERROR")
        @@ [original_error |-> original_error, cause |-> None]

LLMError(message, original_error) ==
    StoryBotException("LLMError", message, "LLM_ERROR")
        @@ [original_error |-> original_error, cause |-> None]

AgentError(message, agent_name, cause) ==
    StoryBotException("AgentError", message, "AGENT_ERROR")
        @@ [agent_name |-> agent_name, cause |-> cause]

PipelineError(message, step, cause) ==
    StoryBotException("PipelineError", message, "PIPELINE_ERROR")
        @@ [step |-> step, cause |-> cause]

\* str(e): StoryBotException passes its message to Exception.__init__
str_exc(e) == e.message

----------------------------------------------------------------------------
(* storybot_config.py *)

agents_config ==
    [researcher  |-> [name |-> "Researcher", emoji |-> "scientist"],
     simplifier  |-> [name |-> "Simplifier", emoji |-> "blue book"],
     storywriter |-> [name |-> "Storywriter", emoji |-> "mage"],
     educator    |-> [name |-> "Educator", emoji |-> "baby"]]

age_configs ==
    [g \in {"5-8", "9-12", "13-17", "18-25", "26-40", "41-50", "50+"} |->
        CASE g = "5-8"   -> [name |-> "Young Children (5-8)", complexity |-> "very_simple",
                             vocabulary |-> "basic", concepts |-> "fundamental"]
          [] g = "9-12"  -> [name |-> "Older Children (9-12)", complexity |-> "simple",
                             vocabulary |-> "intermediate", concepts |-> "basic"]
          [] g = "13-17" -> [name |-> "Teenagers (13-17)", complexity |-> "moderate",
                             vocabulary |-> "advanced", concepts |-> "intermediate"]
          [] g = "18-25" -> [name |-> "Young Adults (18-25)", complexity |-> "moderate",
                             vocabulary |-> "adult", concepts |-> "comprehensive"]
          [] g = "26-40" -> [name |-> "Adults (26-40)", complexity |-> "advanced",
                             vocabulary |-> "professional", concepts |-> "detailed"]
          [] g = "41-50" -> [name |-> "Mature Adults (41-50)", complexity |-> "expert",
                             vocabulary |-> "expert", concepts |-> "comprehensive"]
          [] g = "50+"   -> [name |-> "Senior Adults (50+)", complexity |-> "expert",
                             vocabulary |-> "sophisticated", concepts |-> "comprehensive"]]

error_messages ==
    [no_api_key    |-> Msg("Gemini API key is required. Set GEMINI_API_KEY environment variable.", <<>>),
     invalid_topic |-> Msg("Topic must be between {min_topic_length} and {max_topic_length} characters.",
                           <<min_topic_length, max_topic_length>>),
     empty_topic   |-> Msg("Topic cannot be empty.", <<>>),
     api_error     |-> Msg("An error occurred while processing your request.", <<>>)]

\* a slip: the upper length check is left out
validate_topic_no_max(topic) ==
    IF ~truthy(topic) \/ ~truthy(strip(topic))
    THEN <<FALSE, error_messages.empty_topic>>
    ELSE IF len(strip(topic)) < min_topic_length
         THEN <<FALSE, error_messages.invalid_topic>>
         ELSE <<TRUE, None>>

\* a slip: the length is taken of the topic as given
validate_topic_raw_length(topic) ==
    IF ~truthy(topic) \/ ~truthy(strip(topic))
    THEN <<FALSE, error_messages.empty_topic>>
    ELSE LET topic_length == len(topic) IN
         IF topic_length < min_topic_length
         THEN <<FALSE, error_messages.invalid_topic>>
         ELSE IF topic_length > max_topic_length
              THEN <<FALSE, error_messages.invalid_topic>>
              ELSE <<TRUE, None>>

\* (is_valid, error_message); the message of a valid topic is None
validate_topic(topic) ==
    IF ~truthy(topic) \/ ~truthy(strip(topic))
    THEN <<FALSE, error_messages.empty_topic>>
    ELSE LET topic_length == len(strip(topic)) IN
         IF topic_length < min_topic_length
         THEN <<FALSE, error_messages.invalid_topic>>
         ELSE IF topic_length > max_topic_length
              THEN <<FALSE, error_messages.invalid_topic>>
              ELSE <<TRUE, None>>

\* a slip: the labels of the last two branches are exchanged
get_age_group_swapped(age) ==
    IF age <= 8 THEN "5-8"
    ELSE IF age <= 12 THEN "9-12"
    ELSE IF age <= 17 THEN "13-17"
    ELSE IF age <= 25 THEN "18-25"
    ELSE IF age <= 40 THEN "26-40"
    ELSE IF age <= 50 THEN "50+"
    ELSE "41-50"

\* get_age_group with the comparisons exclusive
get_age_group_strict(age) ==
    IF age < 8 THEN "5-8"
    ELSE IF age < 12 THEN "9-12"
    ELSE IF age < 17 THEN "13-17"
    ELSE IF age < 25 THEN "18-25"
    ELSE IF age < 40 THEN "26-40"
    ELSE IF age < 50 THEN "41-50"
    ELSE "50+"

get_age_group(age) ==
    IF age <= 8 THEN "5-8"
    ELSE IF age <= 12 THEN "9-12"
    ELSE IF age <= 17 THEN "13-17"
    ELSE IF age <= 25 THEN "18-25"
    ELSE IF age <= 40 THEN "26-40"
    ELSE IF age <= 50 THEN "41-50"
    ELSE "50+"

get_age_config(age) ==
    LET age_group == get_age_group(age) IN
    IF age_group \in DOMAIN age_configs
    THEN age_configs[age_group]
    ELSE age_configs["18-25"]

----------------------------------------------------------------------------
(* The LLM behind chain.invoke: an opaque service that answers with a text *)
(* (a plain str or an AIMessage) or fails                                  *)

LLMTexts ==
    {Rep("a", max_story_length - 1), Rep("b", max_story_length),
     Rep("c", max_story_length + 1)}

LLMOutcomes ==
    [kind : {"str", "AIMessage"}, content : LLMTexts]
    \cup {[kind |-> "raise",
           exc |-> [type |-> t, message |-> Msg(t, <<>>), cause |-> None]] :
              t \in {"TimeoutError", "ResourceExhausted"}}

----------------------------------------------------------------------------
(* storybot_agents.py: BaseAgent.process *)

\* a slip: the except clause swallows the failure and returns an empty text
process_swallow(agent_name, kwargs, result) ==
    IF result.kind = "raise"
    THEN [kind |-> "return", value |-> <<>>]
    ELSE [kind |-> "return", value |-> result.content]

\* what process gives its caller when chain.invoke(kwargs) ends as `result`
process(agent_name, kwargs, result) ==
    IF result.kind = "raise"
    THEN [kind |-> "raise",
          exc |-> AgentError(Msg("Failed to process input in {self.config.name}: {str(e)}",
                                 <<agent_name, str_exc(result.exc)>>),
                             agent_name, result.exc)]
    ELSE IF result.kind = "AIMessage"
         THEN [kind |-> "return", value |-> result.content]
         ELSE [kind |-> "return", value |-> result.content]   \* str(result) of a str

\* self.agents, by name
agents ==
    <<agents_config.researcher.name, agents_config.simplifier.name,
      agents_config.storywriter.name, agents_config.educator.name>>

----------------------------------------------------------------------------
(* Inputs *)

Pads == {Rep(" ", k) : k \in 0..MaxPad}

\* topic bodies: empty, around both length limits, and one with inner whitespace
Bodies ==
    {Rep("x", k) : k \in {0, min_topic_length - 1, min_topic_length,
                          max_topic_length, max_topic_length + 1}}
    \cup {Cat(Rep("x", 1), Cat(Rep(" ", 1), Rep("y", 1)))}

Topics == {Cat(l, Cat(b, t)) : l \in Pads, b \in Bodies, t \in Pads}

\* ages on both sides of every comparison the code makes
StoryAges ==
    {MinAge - 1, MinAge, 8, 9, 12, 13, 17, 18, 25, 26, 40, 41, 50, 51,
     MaxAge, MaxAge + 1}

Ages == (0 - AgeMargin)..(MaxAge + AgeMargin)

----------------------------------------------------------------------------
(* storybot_agents.py: StoryBot.create_story *)

\* the four age parameters handed to the simplifier, storywriter and educator
\* a slip: the simpler-language mode keeps the band name as it is
age_kwargs_unsuffixed(age_config, simpler_language) ==
    IF simpler_language
    THEN [age_group_name   |-> <<age_config.name>>,
          complexity_level |-> "very_simple",
          vocabulary_level |-> "basic",
          concept_depth    |-> "fundamental"]
    ELSE [age_group_name   |-> <<age_config.name>>,
          complexity_level |-> age_config.complexity,
          vocabulary_level |-> age_config.vocabulary,
          concept_depth    |-> age_config.concepts]

age_kwargs(age_config, simpler_language) ==
    IF simpler_language
    THEN [age_group_name   |-> <<age_config.name, " (Simpler Language Mode)">>,
          complexity_level |-> "very_simple",
          vocabulary_level |-> "basic",
          concept_depth    |-> "fundamental"]
    ELSE [age_group_name   |-> <<age_config.name>>,
          complexity_level |-> age_config.complexity,
          vocabulary_level |-> age_config.vocabulary,
          concept_depth    |-> age_config.concepts]

researcher_kwargs(topic) == [topic |-> topic]

simplifier_kwargs(loc, simpler_language) ==
    [research |-> loc.research] @@ age_kwargs(loc.age_config, simpler_language)

\* a slip: the storywriter is handed the research text, not the simplified one
storywriter_kwargs_research(loc, simpler_language) ==
    [simple |-> loc.research] @@ age_kwargs(loc.age_config, simpler_language)

storywriter_kwargs(loc, simpler_language) ==
    [simple |-> loc.simple] @@ age_kwargs(loc.age_config, simpler_language)

\* a slip: the educator is handed the band's own values in either mode
educator_kwargs_plain(loc, simpler_language) ==
    [story |-> loc.story] @@ age_kwargs(loc.age_config, FALSE)

educator_kwargs(loc, simpler_language) ==
    [story |-> loc.story] @@ age_kwargs(loc.age_config, simpler_language)

\* the except clause of create_story
wrap(topic, age, e) ==
    PipelineError(Msg("Failed to create story for topic '{topic}' for age {age}: {str(e)}",
                      <<topic, age, str_exc(e)>>),
                  "story_creation", e)

\* a slip: the simplified text is filed under research and the other way round
result_record_crossed(a, loc) ==
    [topic            |-> a.topic,
     age              |-> a.age,
     age_group        |-> get_age_group(a.age),
     age_config       |-> loc.age_config,
     research         |-> loc.simple,
     simple           |-> loc.research,
     story            |-> loc.story,
     review           |-> loc.review,
     final_story      |-> loc.review,
     agents_used      |-> bot.agents,
     simpler_language |-> a.simpler_language]

\* a slip: final_story is filled from the storywriter's draft
result_record_draft(a, loc) ==
    [topic            |-> a.topic,
     age              |-> a.age,
     age_group        |-> get_age_group(a.age),
     age_config       |-> loc.age_config,
     research         |-> loc.research,
     simple           |-> loc.simple,
     story            |-> loc.story,
     review           |-> loc.story,
     final_story      |-> loc.story,
     agents_used      |-> agents,
     simpler_language |-> a.simpler_language]

\* the dictionary create_story returns
result_record(a, loc) ==
    [topic            |-> a.topic,
     age              |-> a.age,
     age_group        |-> get_age_group(a.age),
     age_config       |-> loc.age_config,
     research         |-> loc.research,
     simple           |-> loc.simple,
     story            |-> loc.story,
     review           |-> loc.review,
     final_story      |-> loc.review,
     agents_used      |-> bot.agents,
     simpler_language |-> a.simpler_language]

\* a slip: the boundary ages are rejected too
age_ok_exclusive(age) == ~(age <= MinAge \/ age >= MaxAge)

\* which create_story arguments pass the age check
age_ok(age) == ~(age < MinAge \/ age > MaxAge)

NoOutcome == [kind |-> "none"]

\* a slip: the validation sits inside the try block, so the except clause
\* wraps its ValidationError
reject_wrapped(topic, age, message, field) ==
    [kind |-> "raise", exc |-> wrap(topic, age, ValidationError(message, field))]

\* raise ValidationError(...) ahead of the try block
reject(topic, age, message, field) ==
    [kind |-> "raise", exc |-> ValidationError(message, field)]

\* a slip: every call registers the four agents on the StoryBot once more
CreateStory_registering(topic, age, simpler_language) ==
    /\ pc = "idle"
    /\ args' = [topic |-> topic, age |-> age, simpler_language |-> simpler_language]
    /\ calls' = <<>>
    /\ bot' = [bot EXCEPT !.agents = @ \o agents]
    /\ LET v == validate_topic(topic)
           checked == [is_valid |-> v[1], error_message |-> v[2]]
       IN IF ~v[1]
          THEN /\ pc' = "raised"
               /\ locals' = checked
               /\ outcome' = reject(topic, age, v[2], "topic")
          ELSE IF ~age_ok(age)
          THEN /\ pc' = "raised"
               /\ locals' = checked
               /\ outcome' = reject(topic, age, Msg("Age must be between 5 and 100", <<>>),
                                     "age")
          ELSE /\ pc' = "researcher"
               /\ locals' = checked @@ [age_config |-> get_age_config(age)]
               /\ outcome' = NoOutcome
    /\ UNCHANGED <<probe, history, world, ui>>

\* a slip: the age is validated ahead of the topic
CreateStory_age_first(topic, age, simpler_language) ==
    /\ pc = "idle"
    /\ args' = [topic |-> topic, age |-> age, simpler_language |-> simpler_language]
    /\ calls' = <<>>
    /\ LET v == validate_topic(topic)
           checked == [is_valid |-> v[1], error_message |-> v[2]]
       IN IF ~age_ok(age)
          THEN /\ pc' = "raised"
               /\ locals' = <<>>
               /\ outcome' = reject(topic, age, Msg("Age must be between 5 and 100", <<>>),
                                     "age")
          ELSE IF ~v[1]
          THEN /\ pc' = "raised"
               /\ locals' = checked
               /\ outcome' = reject(topic, age, v[2], "topic")
          ELSE /\ pc' = "researcher"
               /\ locals' = checked @@ [age_config |-> get_age_config(age)]
               /\ outcome' = NoOutcome
    /\ UNCHANGED outside

\* create_story is entered: both validations and the age lookup, up to the
\* first blocking LLM call
CreateStory(topic, age, simpler_language) ==
    /\ pc = "idle"
    /\ args' = [topic |-> topic, age |-> age, simpler_language |-> simpler_language]
    /\ calls' = <<>>
    /\ LET v == validate_topic(topic)
           checked == [is_valid |-> v[1], error_message |-> v[2]]
       IN IF ~v[1]
          THEN /\ pc' = "raised"
               /\ locals' = checked
               /\ outcome' = reject(topic, age, v[2], "topic")
          ELSE IF ~age_ok(age)
          THEN /\ pc' = "raised"
               /\ locals' = checked
               /\ outcome' = reject(topic, age, Msg("Age must be between 5 and 100", <<>>),
                                     "age")
          ELSE /\ pc' = "researcher"
               /\ locals' = checked @@ [age_config |-> get_age_config(age)]
               /\ outcome' = NoOutcome
    /\ UNCHANGED outside

\* a slip: a failed stage is tried again
Stage_retry(here, agent_name, kwargs, target, next, result) ==
    /\ pc = here
    /\ LET r == process(agent_name, kwargs, result) IN
       IF r.kind = "raise"
       THEN UNCHANGED <<pc, outcome, locals>>
       ELSE LET loc == locals @@ (target :> r.value) IN
            /\ pc' = next
            /\ locals' = loc
            /\ outcome' = IF next = "returned"
                          THEN [kind |-> "return", value |-> result_record(args, loc)]
                          ELSE NoOutcome
    /\ calls' = Append(calls, [agent    |-> agent_name,
                               kwargs   |-> kwargs,
                               response |-> IF result.kind = "raise" THEN None
                                            ELSE result.content,
                               error    |-> IF result.kind = "raise" THEN result.exc
                                            ELSE None])
    /\ UNCHANGED <<args, outside>>

\* one stage: the agent's process call, the assignment of its result, and
\* the except clause when it raised
Stage(here, agent_name, kwargs, target, next, result) ==
    /\ pc = here
    /\ LET r == process(agent_name, kwargs, result) IN
       IF r.kind = "raise"
       THEN /\ pc' = "raised"
            /\ outcome' = [kind |-> "raise", exc |-> wrap(args.topic, args.age, r.exc)]
            /\ UNCHANGED locals
       ELSE LET loc == locals @@ (target :> r.value) IN
            /\ pc' = next
            /\ locals' = loc
            /\ outcome' = IF next = "returned"
                          THEN [kind |-> "return", value |-> result_record(args, loc)]
                          ELSE NoOutcome
    /\ calls' = Append(calls, [agent    |-> agent_name,
                               kwargs   |-> kwargs,
                               response |-> IF result.kind = "raise" THEN None
                                            ELSE result.content,
                               error    |-> IF result.kind = "raise" THEN result.exc
                                            ELSE None])
    /\ UNCHANGED <<args, outside>>

Research(result) ==
    Stage("researcher", agents_config.researcher.name,
          researcher_kwargs(args.topic), "research", "simplifier", result)

Simplify(result) ==
    Stage("simplifier", agents_config.simplifier.name,
          simplifier_kwargs(locals, args.simpler_language), "simple", "storywriter", result)

Storify(result) ==
    Stage("storywriter", agents_config.storywriter.name,
          storywriter_kwargs(locals, args.simpler_language), "story", "educator", result)

Review(result) ==
    Stage("educator", agents_config.educator.name,
          educator_kwargs(locals, args.simpler_language), "review", "returned", result)

\* arguments before any call: create_story's defaults
NoArgs == [topic |-> <<>>, age |-> 5, simpler_language |-> FALSE]

\* the caller has the outcome in hand (the result to display or the
\* exception to report); the frame of create_story is gone and the same
\* StoryBot is ready for the next call
Finish ==
    /\ pc \in {"returned", "raised"}
    /\ pc' = "idle"
    /\ args' = NoArgs
    /\ locals' = <<>>
    /\ calls' = <<>>
    /\ outcome' = NoOutcome
    /\ UNCHANGED outside

----------------------------------------------------------------------------
(* The pipeline *)

PipelineIdle ==
    /\ pc = "idle"
    /\ args = NoArgs
    /\ locals = <<>>
    /\ calls = <<>>
    /\ outcome = NoOutcome

\* a StoryBot as __init__ leaves it
NewBot == [agents |-> agents]

\* the process before get_config or StoryBot was ever called
NewWorld == [env_key |-> None, instance |-> None, built |-> 0, get_built |-> 0,
             got |-> <<>>, bots |-> <<>>]

\* the script has not run
NoRun == [pc |-> "none"]

\* a constructed StoryBot, nothing kept of earlier calls, no script run
Constructed ==
    /\ bot = NewBot
    /\ history = None
    /\ world = NewWorld
    /\ ui = NoRun

Init ==
    /\ PipelineIdle
    /\ Constructed
    /\ probe = [ages |-> <<>>, groups |-> <<>>, configs |-> <<>>]

Next ==
    \/ \E topic \in Topics, age \in StoryAges, simpler_language \in BOOLEAN :
          CreateStory(topic, age, simpler_language)
    \/ \E result \in LLMOutcomes : Research(result)
    \/ \E result \in LLMOutcomes : Simplify(result)
    \/ \E result \in LLMOutcomes : Storify(result)
    \/ \E result \in LLMOutcomes : Review(result)
    \/ Finish

Spec == Init /\ [][Next]_vars

----------------------------------------------------------------------------
(* The age resolver called directly: two ages are drawn, get_age_group is  *)
(* applied to each in turn, and get_age_config to the first                *)

CallGetAgeGroup ==
    /\ Len(probe.groups) < Len(probe.ages)
    /\ probe' = [probe EXCEPT !.groups =
                    Append(@, [kind |-> "return",
                               value |-> get_age_group(probe.ages[Len(probe.groups) + 1])])]
    /\ UNCHANGED <<pipeline, bot, history, world, ui>>

CallGetAgeConfig ==
    /\ Len(probe.configs) < 1
    /\ probe' = [probe EXCEPT !.configs =
                    Append(@, [kind |-> "return",
                               value |-> get_age_config(probe.ages[1])])]
    /\ UNCHANGED <<pipeline, bot, history, world, ui>>

InitResolver ==
    /\ PipelineIdle
    /\ Constructed
    /\ \E a \in Ages, b \in Ages :
          probe = [ages |-> <<a, b>>, groups |-> <<>>, configs |-> <<>>]

NextResolver == CallGetAgeGroup \/ CallGetAgeConfig

SpecResolver == InitResolver /\ [][NextResolver]_vars

----------------------------------------------------------------------------
(* The Python process: StoryBotConfig objects, get_config and its module   *)
(* global, and StoryBot.__init__                                           *)

\* an Optional[str] that is a str
Str(s) == [type |-> "str", value |-> s]

\* GEMINI_API_KEY in the environment: unset, empty, blank, or a key
EnvKeys == <<None, Str(<<>>), Str(Rep(" ", 2)), Str(Rep("k", 39))>>

\* the api_key argument of StoryBot: None, empty, blank, or a key
KeyArgs == <<None, Str(<<>>), Str(Rep(" ", 1)), Str(Rep("K", 39))>>

\* StoryBotConfig(): a new object (told apart by id) that reads the key from
\* the environment
StoryBotConfig(w) == [id |-> w.built + 1, api_key |-> w.env_key]

validate_api_key(config) ==
    /\ config.api_key # None
    /\ truthy(config.api_key.value)
    /\ truthy(strip(config.api_key.value))

\* a slip: the module global is not consulted, every call builds a new object
get_config_rebuild(w) ==
    LET c == StoryBotConfig(w) IN
    [world |-> [w EXCEPT !.instance = c, !.built = @ + 1, !.get_built = @ + 1],
     value |-> c]

\* get_config(): the process after the call and the object returned
get_config(w) ==
    IF w.instance = None
    THEN LET c == StoryBotConfig(w) IN
         [world |-> [w EXCEPT !.instance = c, !.built = @ + 1, !.get_built = @ + 1],
          value |-> c]
    ELSE [world |-> w, value |-> w.instance]

\* StoryBot.__init__(api_key, config), GoogleGenerativeAI(...) ending as
\* `ctor` ("ok" or "raise"): the process afterwards and what was made: the
\* bot or the exception, its config, the keys GoogleGenerativeAI was
\* constructed with, and the agents created
StoryBot_init(w, api_key, config, ctor) ==
    LET g   == IF config # None THEN [world |-> w, value |-> config] ELSE get_config(w)
        cfg == g.value
    IN IF api_key = None /\ ~validate_api_key(cfg)
       THEN [world |-> g.world,
             made  |-> [kind |-> "raise", exc |-> APIKeyError(error_messages.no_api_key),
                        config |-> cfg, llm_keys |-> <<>>, agents |-> <<>>]]
       ELSE LET key == IF api_key = None THEN cfg.api_key ELSE api_key IN
            IF ctor = "raise"
            THEN [world |-> g.world,
                  made  |-> [kind |-> "raise",
                             exc |-> LLMError(Msg("Failed to initialize language model", <<>>),
                                              [type |-> "ValueError"]),
                             config |-> cfg, llm_keys |-> <<key>>, agents |-> <<>>]]
            ELSE [world |-> g.world,
                  made  |-> [kind |-> "return", exc |-> None,
                             config |-> cfg, llm_keys |-> <<key>>, agents |-> agents]]

\* StoryBot(api_key) or StoryBot(api_key, config=StoryBotConfig())
Construct(api_key, explicit, ctor) ==
    /\ Len(world.bots) < MaxBots
    /\ LET w1  == IF explicit THEN [world EXCEPT !.built = @ + 1] ELSE world
           arg == IF explicit THEN StoryBotConfig(world) ELSE None
           r   == StoryBot_init(w1, api_key, arg, ctor)
       IN world' = [r.world EXCEPT !.bots =
                       Append(@, r.made @@ [api_key |-> api_key, explicit |-> explicit])]
    /\ UNCHANGED <<pipeline, probe, bot, history, ui>>

\* a direct get_config() call, as the tests and the script make
GetConfig ==
    /\ Len(world.got) < MaxGets
    /\ LET r == get_config(world) IN
       world' = [r.world EXCEPT !.got = Append(@, r.value)]
    /\ UNCHANGED <<pipeline, probe, bot, history, ui>>

InitProcess ==
    /\ PipelineIdle
    /\ probe = [ages |-> <<>>, groups |-> <<>>, configs |-> <<>>]
    /\ bot = NewBot
    /\ history = None
    /\ ui = NoRun
    /\ \E k \in DOMAIN EnvKeys : world = [NewWorld EXCEPT !.env_key = EnvKeys[k]]

NextProcess ==
    \/ \E k \in DOMAIN KeyArgs, explicit \in BOOLEAN, ctor \in {"ok", "raise"} :
          Construct(KeyArgs[k], explicit, ctor)
    \/ GetConfig

SpecProcess == InitProcess /\ [][NextProcess]_vars

----------------------------------------------------------------------------
(* The five failure kinds raised and caught directly, as test_exceptions   *)
(* does: two raise statements are drawn and executed in turn               *)

Kinds == {"APIKeyError", "ValidationError", "LLMError", "AgentError", "PipelineError"}

TestMessages == {Msg("Test error", <<>>), Msg("Another test error", <<>>)}

\* the extra argument of the constructor: a field, agent or step name, or
\* the original exception; APIKeyError takes none
ExtraArgs(kind) ==
    CASE kind = "APIKeyError"     -> <<None>>
      [] kind = "ValidationError" -> <<"topic", "age">>
      [] kind = "LLMError"        -> <<[type |-> "ValueError"], [type |-> "TimeoutError"]>>
      [] kind = "AgentError"      -> <<"Researcher", "Educator">>
      [] kind = "PipelineError"   -> <<"testing", "story_creation">>

\* raise kind(message, extra), caught by `except kind as e`: the object e
raise_caught(kind, message, extra) ==
    CASE kind = "APIKeyError"     -> APIKeyError(message)
      [] kind = "ValidationError" -> ValidationError(message, extra)
      [] kind = "LLMError"        -> LLMError(message, extra)
      [] kind = "AgentError"      -> AgentError(message, extra, None)
      [] kind = "PipelineError"   -> PipelineError(message, extra, None)

RaiseNext ==
    /\ Len(probe.caught) < Len(probe.raises)
    /\ LET r == probe.raises[Len(probe.caught) + 1] IN
       probe' = [probe EXCEPT !.caught = Append(@, raise_caught(r.kind, r.message, r.extra))]
    /\ UNCHANGED <<pipeline, bot, history, world, ui>>

InitExceptions ==
    /\ PipelineIdle
    /\ Constructed
    /\ \E k1 \in Kinds, k2 \in Kinds, m \in TestMessages :
       \E x1 \in DOMAIN ExtraArgs(k1), x2 \in DOMAIN ExtraArgs(k2) :
          probe = [raises |-> <<[kind |-> k1, message |-> m, extra |-> ExtraArgs(k1)[x1]],
                                [kind |-> k2, message |-> m, extra |-> ExtraArgs(k2)[x2]]>>,
                   caught |-> <<>>]

NextExceptions == RaiseNext

SpecExceptions == InitExceptions /\ [][NextExceptions]_vars

----------------------------------------------------------------------------
(* storybot_llm_eli5_streamlit.py: one run of the script, top to bottom.   *)
(* Streamlit runs it on every interaction with the widget values of the    *)
(* session; st.stop() ends the run.                                        *)

\* create_story as one call, the four chain.invoke calls ending as plan[1..4]:
\* the outcome and the stages that were invoked
create_story(topic, age, simpler_language, plan) ==
    LET v == validate_topic(topic) IN
    IF ~v[1] THEN [outcome |-> reject(topic, age, v[2], "topic"), invoked |-> 0]
    ELSE IF ~age_ok(age)
    THEN [outcome |-> reject(topic, age, Msg("Age must be between 5 and 100", <<>>), "age"),
          invoked |-> 0]
    ELSE
    LET loc0 == [is_valid |-> v[1], error_message |-> v[2],
                 age_config |-> get_age_config(age)]
        a    == [topic |-> topic, age |-> age, simpler_language |-> simpler_language]
        fail(e, n) == [outcome |-> [kind |-> "raise", exc |-> wrap(topic, age, e)],
                       invoked |-> n]
        r1   == process(agents_config.researcher.name, researcher_kwargs(topic), plan[1])
    IN IF r1.kind = "raise" THEN fail(r1.exc, 1) ELSE
       LET loc1 == loc0 @@ [research |-> r1.value]
           r2   == process(agents_config.simplifier.name,
                           simplifier_kwargs(loc1, simpler_language), plan[2])
       IN IF r2.kind = "raise" THEN fail(r2.exc, 2) ELSE
       LET loc2 == loc1 @@ [simple |-> r2.value]
           r3   == process(agents_config.storywriter.name,
                           storywriter_kwargs(loc2, simpler_language), plan[3])
       IN IF r3.kind = "raise" THEN fail(r3.exc, 3) ELSE
       LET loc3 == loc2 @@ [story |-> r3.value]
           r4   == process(agents_config.educator.name,
                           educator_kwargs(loc3, simpler_language), plan[4])
       IN IF r4.kind = "raise" THEN fail(r4.exc, 4) ELSE
       [outcome |-> [kind |-> "return",
                     value |-> result_record(a, loc3 @@ [review |-> r4.value])],
        invoked |-> 4]

\* the names storybot_exceptions.py defines
exceptions_module ==
    {"StoryBotException", "APIKeyError", "ValidationError", "LLMError", "AgentError",
     "PipelineError"}

\* the names the script imports from storybot_exceptions
script_imports ==
    {"StoryBotException", "APIKeyError", "ValidationError", "LLMError", "AgentError",
     "PipelineError", "UIError"}

\* what the page shows
Shown(kind, text) == [kind |-> kind, text |-> text]

\* one run of the script: where it ended, what it showed, and the topics
\* create_story was called with
script(run) ==
    IF ~(script_imports \subseteq exceptions_module)
    THEN [pc |-> "stopped", at |-> "import",
          shown |-> <<Shown("error", "Import error"),
                      Shown("info", "Please check that all dependencies are installed correctly.")>>,
          story_calls |-> <<>>]
    ELSE IF run.env_key = None \/ ~truthy(run.env_key.value)
    THEN [pc |-> "stopped", at |-> "api_key",
          shown |-> <<Shown("error", "GEMINI_API_KEY not found in environment variables!"),
                      Shown("info", "Please add your Gemini API key to the environment variables.")>>,
          story_calls |-> <<>>]
    ELSE
    LET made == StoryBot_init([NewWorld EXCEPT !.env_key = run.env_key], None, None,
                              run.ctor).made
    IN IF made.kind = "raise"
       THEN [pc |-> "stopped", at |-> "create_storybot",
             shown |-> <<Shown("error", "Failed to initialize StoryBot!"),
                         Shown("error", str_exc(made.exc))>>,
             story_calls |-> <<>>]
       ELSE
       LET form == <<Shown("title", "Story Bot LLM - Explain Like I'm 5"),
                     Shown("text_input", run.topic),
                     Shown("button", "Generate Magical Story")>>
           tail == <<Shown("expander", "Meet the AI Crew"), Shown("footer", "Built using")>>
       IN IF ~run.clicked
          THEN [pc |-> "done", at |-> "end", shown |-> form \o tail, story_calls |-> <<>>]
          ELSE IF ~truthy(strip(run.topic))
          THEN [pc |-> "done", at |-> "end",
                shown |-> form
                          \o <<Shown("warning", "Please enter a topic to generate a story!")>>
                          \o tail,
                story_calls |-> <<>>]
          ELSE
          LET r == create_story(run.topic, 5, FALSE, run.plan) IN
          IF r.outcome.kind = "return"
          THEN [pc |-> "done", at |-> "end",
                shown |-> form
                          \o <<Shown("success", "Story generated successfully!"),
                               Shown("story", r.outcome.value.final_story)>>
                          \o tail,
                story_calls |-> <<run.topic>>]
          ELSE [pc |-> "done", at |-> "end",
                shown |-> form
                          \o <<Shown("error", "Something went wrong while generating the story. Please try again."),
                               Shown("exception", r.outcome.exc.type),
                               Shown("info", "If this is a deployment issue, please check the logs for more details.")>>
                          \o tail,
                story_calls |-> <<run.topic>>]

\* the LLM answers or fails, stage by stage
Plans ==
    [1..4 -> {[kind |-> "str", content |-> Rep("a", max_story_length - 1)],
              [kind |-> "raise",
               exc |-> [type |-> "TimeoutError", message |-> Msg("TimeoutError", <<>>),
                        cause |-> None]]}]

\* the script runs with the session's topic and button state
RunScript(run) ==
    /\ ui = NoRun
    /\ ui' = script(run) @@ [run |-> run]
    /\ UNCHANGED <<pipeline, probe, bot, history, world>>

InitUI == Init

NextUI ==
    \E k \in DOMAIN EnvKeys, ctor \in {"ok", "raise"}, topic \in Topics,
       clicked \in BOOLEAN, plan \in Plans :
          RunScript([env_key |-> EnvKeys[k], ctor |-> ctor, topic |-> topic,
                     clicked |-> clicked, plan |-> plan])

SpecUI == InitUI /\ [][NextUI]_vars

----------------------------------------------------------------------------
(* storybot_agents.py: several create_story calls on one StoryBot, the      *)
(* caller keeping what an earlier call did                                 *)

BotTopics == {Rep("x", min_topic_length), Rep("x", 0)}

BotAges == {MinAge, 26, MaxAge + 1}

BotOutcomes ==
    {[kind |-> "str", content |-> Rep("a", max_story_length - 1)],
     [kind |-> "AIMessage", content |-> Rep("b", max_story_length)],
     [kind |-> "raise",
      exc |-> [type |-> "TimeoutError", message |-> Msg("TimeoutError", <<>>),
               cause |-> None]]}

\* the caller takes the outcome of a finished call and keeps it, together
\* with what the LLM was asked and answered
Keep ==
    /\ pc \in {"returned", "raised"}
    /\ history = None
    /\ history' = [type |-> "call", args |-> args, calls |-> calls, outcome |-> outcome]
    /\ pc' = "idle"
    /\ args' = NoArgs
    /\ locals' = <<>>
    /\ calls' = <<>>
    /\ outcome' = NoOutcome
    /\ UNCHANGED <<probe, bot, world, ui>>

InitBot == Init

NextBot ==
    \/ \E topic \in BotTopics, age \in BotAges, simpler_language \in BOOLEAN :
          CreateStory(topic, age, simpler_language)
    \/ \E result \in BotOutcomes : Research(result)
    \/ \E result \in BotOutcomes : Simplify(result)
    \/ \E result \in BotOutcomes : Storify(result)
    \/ \E result \in BotOutcomes : Review(result)
    \/ Finish
    \/ Keep

SpecBot == InitBot /\ [][NextBot]_vars

----------------------------------------------------------------------------
(* storybot_agents.py: get_agent_by_name, get_agent_info and agents_used.  *)
(* Names given to get_agent_by_name are sequences of characters, so that   *)
(* lower() is computed character by character.                             *)

UpperCase == <<"A", "B", "C", "D", "E", "F", "G", "H", "I", "J", "K", "L", "M", "N", "O",
    "P", "Q", "R", "S", "T", "U", "V", "W", "X", "Y", "Z">>

LowerCase == <<"a", "b", "c", "d", "e", "f", "g", "h", "i", "j", "k", "l", "m", "n", "o",
    "p", "q", "r", "s", "t", "u", "v", "w", "x", "y", "z">>

\* str.lower() of one character and of a string
lower_char(c) ==
    IF \E i \in 1..Len(UpperCase) : UpperCase[i] = c
    THEN LowerCase[CHOOSE i \in 1..Len(UpperCase) : UpperCase[i] = c]
    ELSE c

lower(s) == [i \in 1..Len(s) |-> lower_char(s[i])]

\* the characters of the four configured agent names
spelling(name) ==
    CASE name = "Researcher"  -> <<"R", "e", "s", "e", "a", "r", "c", "h", "e", "r">>
      [] name = "Simplifier"  -> <<"S", "i", "m", "p", "l", "i", "f", "i", "e", "r">>
      [] name = "Storywriter" -> <<"S", "t", "o", "r", "y", "w", "r", "i", "t", "e", "r">>
      [] name = "Educator"    -> <<"E", "d", "u", "c", "a", "t", "o", "r">>

\* the agent object built from the configuration entry named `name`
agent(name) ==
    LET key == CHOOSE k \in DOMAIN agents_config : agents_config[k].name = name
    IN [type |-> "BaseAgent", name |-> agents_config[key].name,
        emoji |-> agents_config[key].emoji]

\* get_agent_by_name comparing the names as they are
get_agent_by_name_exact(b, name) ==
    LET hits == {i \in 1..Len(b.agents) : spelling(b.agents[i]) = name}
    IN IF hits = {} THEN None
       ELSE agent(b.agents[CHOOSE i \in hits : \A j \in hits : i <= j])

get_agent_by_name(b, name) ==
    LET hits == {i \in 1..Len(b.agents) : lower(spelling(b.agents[i])) = lower(name)}
    IN IF hits = {} THEN None
       ELSE agent(b.agents[CHOOSE i \in hits : \A j \in hits : i <= j])

\* the dict {agent.name: agent.emoji}, as its items in insertion order
get_agent_info(b) ==
    LET first == {i \in 1..Len(b.agents) :
                     \A j \in 1..(i - 1) : b.agents[j] # b.agents[i]}
        nth(r) == CHOOSE i \in first : Cardinality({j \in first : j <= i}) = r
    IN [r \in 1..Cardinality(first) |->
           <<agent(b.agents[nth(r)]).name, agent(b.agents[nth(r)]).emoji>>]

\* names asked for: each agent name as configured, in lower case, in upper
\* case and in mixed case, and names of no agent
LookupNames ==
    {<<"R", "e", "s", "e", "a", "r", "c", "h", "e", "r">>, <<"S", "i", "m", "p", "l", "i",
        "f", "i", "e", "r">>, <<"S", "t", "o", "r", "y", "w", "r", "i", "t", "e", "r">>,
        <<"E", "d", "u", "c", "a", "t", "o", "r">>,
     <<"r", "e", "s", "e", "a", "r", "c", "h", "e", "r">>, <<"s", "i", "m", "p", "l", "i",
         "f", "i", "e", "r">>, <<"s", "t", "o", "r", "y", "w", "r", "i", "t", "e", "r">>,
         <<"e", "d", "u", "c", "a", "t", "o", "r">>,
     <<"R", "E", "S", "E", "A", "R", "C", "H", "E", "R">>, <<"S", "I", "M", "P", "L", "I",
         "F", "I", "E", "R">>, <<"S", "T", "O", "R", "Y", "W", "R", "I", "T", "E", "R">>,
         <<"E", "D", "U", "C", "A", "T", "O", "R">>,
     <<"r", "E", "s", "E", "a", "R", "c", "H", "e", "R">>, <<"e", "D", "U", "C", "A", "T",
         "O", "r">>,
     <<"N", "o", "n", "E", "x", "i", "s", "t", "e", "n", "t", "A", "g", "e", "n", "t">>,
         <<>>, <<"R", "e", "s", "e", "a", "r", "c", "h">>, <<"R", "e", "s", "e", "a", "r",
         "c", "h", "e", "r", "s">>, <<"E", "d", "u", "c", "a", "t", "o", "r", " ">>, <<"S",
         "t", "o", "r", "y", "-", "w", "r", "i", "t", "e", "r">>}

NotAsked == [kind |-> "none"]

CallGetAgentByName ==
    /\ Len(probe.found) < Len(probe.names)
    /\ probe' = [probe EXCEPT !.found =
                    Append(@, get_agent_by_name(bot, probe.names[Len(probe.found) + 1]))]
    /\ UNCHANGED <<pipeline, bot, history, world, ui>>

CallGetAgentInfo ==
    /\ probe.info = NotAsked
    /\ probe' = [probe EXCEPT !.info = [kind |-> "return", value |-> get_agent_info(bot)]]
    /\ UNCHANGED <<pipeline, bot, history, world, ui>>

\* a whole create_story call, of which the agents_used of the result is kept
CallCreateStory(age, simpler_language, plan) ==
    /\ probe.used = NotAsked
    /\ LET r == create_story(Rep("x", min_topic_length), age, simpler_language, plan).outcome
       IN probe' = [probe EXCEPT !.used =
                       IF r.kind = "return"
                       THEN [kind |-> "return", value |-> r.value.agents_used]
                       ELSE [kind |-> "raise"]]
    /\ UNCHANGED <<pipeline, bot, history, world, ui>>

InitAgents ==
    /\ PipelineIdle
    /\ Constructed
    /\ \E n1 \in LookupNames, n2 \in LookupNames :
          probe = [names |-> <<n1, n2>>, found |-> <<>>, info |-> NotAsked,
                   used |-> NotAsked]

NextAgents ==
    \/ CallGetAgentByName
    \/ CallGetAgentInfo
    \/ \E age \in BotAges, simpler_language \in BOOLEAN, plan \in Plans :
          CallCreateStory(age, simpler_language, plan)

SpecAgents == InitAgents /\ [][NextAgents]_vars

----------------------------------------------------------------------------
(* storybot_config.py: validate_topic, and StoryBot.validate_topic on top   *)
(* of it, applied to one topic                                             *)

\* StoryBot.validate_topic
StoryBot_validate_topic(topic) == validate_topic(topic)[1]

\* whitespace around a topic
TopicPads ==
    {<<>>, Rep(" ", 1), Rep("\t", 1), Cat(Rep(" ", 1), Rep("\n", 1))}

\* topic bodies on both sides of each length limit, without and with
\* whitespace inside
TopicBodies ==
    {Rep("x", k) : k \in {0, 1, min_topic_length - 1, min_topic_length,
                          min_topic_length + 1, max_topic_length - 1,
                          max_topic_length, max_topic_length + 1}}
    \cup {Cat(Rep("x", 1), Cat(Rep(" ", k), Rep("y", 1))) :
             k \in {0, 1, max_topic_length - 2, max_topic_length - 1}}

CheckedTopics == {Cat(l, Cat(b, t)) : l \in TopicPads, b \in TopicBodies, t \in TopicPads}

CallConfigValidateTopic ==
    /\ probe.verdict = NotAsked
    /\ probe' = [probe EXCEPT !.verdict =
                    [kind |-> "return", value |-> validate_topic(probe.topic)]]
    /\ UNCHANGED <<pipeline, bot, history, world, ui>>

CallValidateTopic ==
    /\ probe.valid = NotAsked
    /\ probe' = [probe EXCEPT !.valid =
                    [kind |-> "return", value |-> StoryBot_validate_topic(probe.topic)]]
    /\ UNCHANGED <<pipeline, bot, history, world, ui>>

InitTopic ==
    /\ PipelineIdle
    /\ Constructed
    /\ \E topic \in CheckedTopics :
          probe = [topic |-> topic, verdict |-> NotAsked, valid |-> NotAsked]

NextTopic == CallConfigValidateTopic \/ CallValidateTopic

SpecTopic == InitTopic /\ [][NextTopic]_vars

----------------------------------------------------------------------------
(* storybot_agents.py: create_story calls whose LLM calls all come back.    *)
(* chain.invoke blocks until the provider answers or the call fails, so a  *)
(* stage that has been reached is eventually left.                         *)

InitLive == Init

NextLive ==
    \/ \E topic \in BotTopics, age \in StoryAges, simpler_language \in BOOLEAN :
          CreateStory(topic, age, simpler_language)
    \/ \E result \in BotOutcomes : Research(result)
    \/ \E result \in BotOutcomes : Simplify(result)
    \/ \E result \in BotOutcomes : Storify(result)
    \/ \E result \in BotOutcomes : Review(result)
    \/ Finish

\* every LLM call either returns or fails
LLMCallsEnd ==
    /\ WF_vars(\E result \in BotOutcomes : Research(result))
    /\ WF_vars(\E result \in BotOutcomes : Simplify(result))
    /\ WF_vars(\E result \in BotOutcomes : Storify(result))
    /\ WF_vars(\E result \in BotOutcomes : Review(result))

SpecLive == InitLive /\ [][NextLive]_vars /\ LLMCallsEnd

----------------------------------------------------------------------------
(* Properties *)

StageOrder == <<"Researcher", "Simplifier", "Storywriter", "Educator">>

\* C1: in every create_story run that returns a result, the four stages
\* were invoked exactly once each in the order researcher, simplifier,
\* storywriter, educator, and each stage after the first received as its
\* content input exactly the text the LLM answered to the stage before it.
C1_StagesInOrderAndChained ==
    pc = "returned" =>
        /\ Len(calls) = 4
        /\ \A i \in 1..4 : calls[i].agent = StageOrder[i]
        /\ calls[2].kwargs.research = calls[1].response
        /\ calls[3].kwargs.simple = calls[2].response
        /\ calls[4].kwargs.story = calls[3].response

\* a returned run in which the first three answers differ pairwise, so a
\* stage fed from the wrong predecessor would show
C1_Witness ==
    /\ pc = "returned"
    /\ Len(calls) = 4
    /\ calls[1].response # calls[2].response
    /\ calls[2].response # calls[3].response
    /\ calls[1].response # calls[3].response

\* C2: if stage k fails, no stage after k is invoked in that run, no result
\* record is returned, and the caller receives a PipelineError with step
\* "story_creation" whose cause is the stage's AgentError, which names the
\* failing agent and has the LLM failure as its cause.
C2_FailureAbortsAndIsWrapped ==
    \A k \in 1..Len(calls) :
        calls[k].error # None =>
            /\ Len(calls) = k
            /\ pc = "raised"
            /\ outcome.kind = "raise"
            /\ outcome.exc.type = "PipelineError"
            /\ outcome.exc.error_code = "PIPELINE_ERROR"
            /\ outcome.exc.step = "story_creation"
            /\ outcome.exc.cause.type = "AgentError"
            /\ outcome.exc.cause.agent_name = calls[k].agent
            /\ outcome.exc.cause.cause = calls[k].error

\* the third stage failed after two stages had answered
C2_Witness ==
    /\ Len(calls) = 3
    /\ calls[3].error # None
    /\ calls[3].agent = "Storywriter"
    /\ pc = "raised"

\* C3: a full run against an LLM that answers all four calls returns a
\* result whose final_story is the answer to the fourth (educator) call and
\* whose review equals final_story.
C3_FinalStoryIsLastResponse ==
    pc = "returned" =>
        /\ outcome.kind = "return"
        /\ calls[4].agent = "Educator"
        /\ outcome.value.final_story = calls[4].response
        /\ outcome.value.review = outcome.value.final_story

\* a returned run whose last answer differs from all the earlier ones
C3_Witness ==
    /\ pc = "returned"
    /\ outcome.kind = "return"
    /\ \A i \in 1..3 : calls[i].response # calls[4].response

\* whether the current call was turned away with a ValidationError on `field`
Rejected(field) ==
    /\ pc = "raised"
    /\ outcome.kind = "raise"
    /\ outcome.exc.type = "ValidationError"
    /\ outcome.exc.error_code = "VALIDATION_ERROR"
    /\ outcome.exc.field = field

\* C4 as stated: every topic that is empty or has more than 200 characters,
\* whitespace counted, is rejected by validate_topic and by create_story.
C4_AsStated ==
    (pc # "idle" /\ (len(args.topic) = 0 \/ len(args.topic) > 200)) =>
        /\ locals.is_valid = FALSE
        /\ Rejected("topic")

\* C4 (amended): every topic that is empty or whitespace-only, or whose form
\* without leading and trailing whitespace has more than 200 characters, is
\* rejected: validate_topic returns (False, message) and create_story raises
\* ValidationError on field topic. Leading and trailing whitespace is not
\* counted: a topic of more than 200 characters whose stripped form has 3 to
\* 200 characters is accepted.
C4_StrippedLengthDecides ==
    pc # "idle" =>
        /\ (len(strip(args.topic)) = 0 \/ len(strip(args.topic)) > 200) =>
              /\ locals.is_valid = FALSE
              /\ locals.error_message # None
              /\ Rejected("topic")
              /\ outcome.exc.message = locals.error_message
        /\ (len(args.topic) > 200 /\ len(strip(args.topic)) \in 3..200) =>
              /\ locals.is_valid = TRUE
              /\ ~Rejected("topic")

\* a topic over 200 characters even without its surrounding whitespace was
\* rejected
C4_Witness ==
    /\ pc = "raised"
    /\ len(strip(args.topic)) > 200
    /\ len(args.topic) > len(strip(args.topic))
    /\ Rejected("topic")

\* C5: with a valid topic, create_story raises ValidationError on field age
\* exactly when the age is below 5 or above 100; ages 5 and 100 pass.
C5_AgeRange ==
    (pc # "idle" /\ locals.is_valid) =>
        ((args.age < 5 \/ args.age > 100) <=> Rejected("age"))

\* age 101 was rejected for a valid topic
C5_Witness ==
    /\ pc = "raised"
    /\ locals.is_valid
    /\ args.age = 101
    /\ Rejected("age")

\* C6 as stated: the age resolver itself rejects every age outside 5..100
\* with a validation failure instead of returning a band.
C6_AsStated ==
    /\ \A i \in 1..Len(probe.groups) :
          (probe.ages[i] < 5 \/ probe.ages[i] > 100) => probe.groups[i].kind = "raise"
    /\ \A i \in 1..Len(probe.configs) :
          (probe.ages[i] < 5 \/ probe.ages[i] > 100) => probe.configs[i].kind = "raise"

\* C6 (amended): the age resolver rejects no age. get_age_group returns the
\* band "5-8" for every age below 5 and "50+" for every age above 100, and
\* get_age_config returns the parameter bundle of that band.
C6_ResolverClamps ==
    /\ \A i \in 1..Len(probe.groups) :
          /\ probe.groups[i].kind = "return"
          /\ probe.ages[i] < 5 => probe.groups[i].value = "5-8"
          /\ probe.ages[i] > 100 => probe.groups[i].value = "50+"
    /\ \A i \in 1..Len(probe.configs) :
          /\ probe.configs[i].kind = "return"
          /\ probe.ages[i] < 5 => probe.configs[i].value.name = "Young Children (5-8)"
          /\ probe.ages[i] > 100 => probe.configs[i].value.name = "Senior Adults (50+)"

\* both resolver functions were applied to an age above 100 and, for
\* get_age_group, to one below 5 as well
C6_Witness ==
    /\ Len(probe.groups) = 2
    /\ Len(probe.configs) = 1
    /\ probe.ages[1] > 100
    /\ probe.ages[2] < 5

BandOrder == <<"5-8", "9-12", "13-17", "18-25", "26-40", "41-50", "50+">>

BandRank(g) == CHOOSE i \in 1..Len(BandOrder) : BandOrder[i] = g

\* C7: for ages a <= b, both in 5..100, get_age_group returns for each one
\* of the seven bands, and the band of a is not later than the band of b.
C7_BandMonotonic ==
    (/\ Len(probe.groups) = 2
     /\ probe.ages[1] \in 5..100
     /\ probe.ages[2] \in 5..100
     /\ probe.ages[1] <= probe.ages[2]) =>
        /\ \A i \in 1..2 : \E j \in 1..7 : probe.groups[i].value = BandOrder[j]
        /\ BandRank(probe.groups[1].value) <= BandRank(probe.groups[2].value)

\* the resolver was applied to 50 and to 51, which fall in different bands
C7_Witness ==
    /\ Len(probe.groups) = 2
    /\ probe.ages = <<50, 51>>
    /\ probe.groups[1].value # probe.groups[2].value

\* C8: whenever create_story rejects the topic or the age, no stage has been
\* invoked in that call and the caller gets the ValidationError itself, not
\* a PipelineError around it.
C8_ValidationBeforeAnyCall ==
    (pc # "idle" /\ (~locals.is_valid \/ args.age < 5 \/ args.age > 100)) =>
        /\ calls = <<>>
        /\ pc = "raised"
        /\ outcome.kind = "raise"
        /\ outcome.exc.type = "ValidationError"
        /\ outcome.exc.cause = None

\* a call with a valid topic and an age out of range ended with no LLM call
C8_Witness ==
    /\ pc = "raised"
    /\ locals.is_valid
    /\ args.age < 5
    /\ calls = <<>>

\* C9: within one create_story call each stage is invoked at most once,
\* however a stage fails, so the LLM is called at most four times.
C9_NoRetry ==
    /\ Len(calls) <= 4
    /\ \A i, j \in 1..Len(calls) : calls[i].agent = calls[j].agent => i = j

\* the last stage failed: four calls were made and none was repeated
C9_Witness ==
    /\ pc = "raised"
    /\ Len(calls) = 4
    /\ calls[4].error # None

\* C10 as stated: the final_story of a successful create_story is within
\* the configured cap max_story_length, whatever the LLM answered.
C10_StoryUnderCap ==
    pc = "returned" => len(outcome.value.final_story) <= max_story_length

\* C11 as stated: the record returned by a successful create_story has the
\* fields topic, age, research, simplified, story and final_story, with
\* topic and age the arguments of the call and research, simplified, story
\* the outputs of stages 1, 2 and 3.
C11_AsStated ==
    pc = "returned" =>
        /\ {"topic", "age", "research", "simplified", "story", "final_story"}
              \subseteq DOMAIN outcome.value
        /\ outcome.value.topic = args.topic
        /\ outcome.value.age = args.age
        /\ outcome.value.research = calls[1].response
        /\ outcome.value.simplified = calls[2].response
        /\ outcome.value.story = calls[3].response

\* C11 (amended): the record returned by a successful create_story has the
\* fields topic, age, research, simple, story and final_story (the
\* simplifier's output is filed under "simple"; there is no field
\* "simplified"), with topic and age the arguments of the call and research,
\* simple, story the outputs of stages 1, 2 and 3.
C11_ResultFields ==
    pc = "returned" =>
        /\ {"topic", "age", "research", "simple", "story", "final_story"}
              \subseteq DOMAIN outcome.value
        /\ "simplified" \notin DOMAIN outcome.value
        /\ outcome.value.topic = args.topic
        /\ outcome.value.age = args.age
        /\ outcome.value.research = calls[1].response
        /\ outcome.value.simple = calls[2].response
        /\ outcome.value.story = calls[3].response

\* a record was returned for a padded topic and age 100, the three stage
\* outputs being different texts
C11_Witness ==
    /\ pc = "returned"
    /\ outcome.kind = "return"
    /\ args.age = 100
    /\ len(args.topic) > len(strip(args.topic))
    /\ Cardinality({calls[i].response : i \in 1..3}) = 3

\* whether a construction was attempted without a usable credential
NoCredential(b) ==
    \/ /\ b.api_key = None
       /\ (b.config.api_key = None \/ len(strip(b.config.api_key.value)) = 0)
    \/ /\ b.api_key # None
       /\ len(strip(b.api_key.value)) = 0

\* C12 as stated: constructing a StoryBot without a usable credential always
\* fails with APIKeyError before the LLM client or any agent is created,
\* both when api_key is None and the configured key is absent, empty or
\* blank, and when an empty or blank api_key is passed explicitly.
C12_NoCredentialIsAPIKeyError ==
    \A i \in 1..Len(world.bots) :
        NoCredential(world.bots[i]) =>
            /\ world.bots[i].kind = "raise"
            /\ world.bots[i].exc.type = "APIKeyError"
            /\ world.bots[i].llm_keys = <<>>
            /\ world.bots[i].agents = <<>>

\* C18: get_config builds the configuration at most once per process:
\* every get_config call so far returned the same StoryBotConfig object,
\* the one held in _config_instance, and every StoryBot constructed without
\* an explicit config holds that object too.
C18_SingleConfig ==
    /\ world.get_built <= 1
    /\ \A i, j \in 1..Len(world.got) : world.got[i].id = world.got[j].id
    /\ \A i \in 1..Len(world.got) : world.got[i] = world.instance
    /\ \A i \in 1..Len(world.bots) :
          ~world.bots[i].explicit => world.bots[i].config = world.instance

\* get_config was called twice, around a StoryBot given its own config and
\* one that took the shared one
C18_Witness ==
    /\ Len(world.got) = 2
    /\ Len(world.bots) = 2
    /\ world.bots[1].explicit
    /\ ~world.bots[2].explicit
    /\ world.built = 2
    /\ world.bots[1].config.id # world.bots[2].config.id

\* the label the claim gives each failure kind
ClaimedLabel(kind) ==
    CASE kind = "APIKeyError"     -> "API_KEY_ERROR"
      [] kind = "ValidationError" -> "VALIDATION_ERROR"
      [] kind = "LLMError"        -> "LLM_ERROR"
      [] kind = "AgentError"      -> "AGENT_ERROR"
      [] kind = "PipelineError"   -> "PIPELINE_ERROR"

\* C13: each of the five failure kinds carries its own fixed label, two
\* failures carry the same label only if they are of the same kind, and the
\* message and the extra attribute given at construction (field,
\* original_error, agent_name, step) are preserved on the caught failure.
C13_LabelsAndAttributes ==
    /\ \A i \in 1..Len(probe.caught) :
          LET e == probe.caught[i]
              r == probe.raises[i]
          IN /\ e.type = r.kind
             /\ e.error_code = ClaimedLabel(r.kind)
             /\ e.message = r.message
             /\ r.kind = "ValidationError" => e.field = r.extra
             /\ r.kind = "LLMError" => e.original_error = r.extra
             /\ r.kind = "AgentError" => e.agent_name = r.extra
             /\ r.kind = "PipelineError" => e.step = r.extra
    /\ \A i, j \in 1..Len(probe.caught) :
          probe.caught[i].error_code = probe.caught[j].error_code
             => probe.raises[i].kind = probe.raises[j].kind

\* an LLMError and an AgentError were both raised and caught
C13_Witness ==
    /\ Len(probe.caught) = 2
    /\ probe.raises[1].kind = "LLMError"
    /\ probe.raises[2].kind = "AgentError"
    /\ probe.caught[1].error_code # probe.caught[2].error_code

\* whether element `e` is on the page of the last script run
OnPage(e) == \E i \in 1..Len(ui.shown) : ui.shown[i] = e

\* C14 as stated: with the API key present and the StoryBot constructed, a
\* submitted non-blank topic whose pipeline succeeds makes the script call
\* create_story for that topic and display the returned final_story, and a
\* submitted blank topic gives the warning and no pipeline call.
C14_FormServesStory ==
    (/\ ui # NoRun
     /\ ui.run.env_key # None
     /\ len(strip(ui.run.env_key.value)) > 0
     /\ ui.run.ctor = "ok"
     /\ ui.run.clicked) =>
        /\ (/\ validate_topic(ui.run.topic)[1]
            /\ \A i \in 1..4 : ui.run.plan[i].kind # "raise") =>
              /\ ui.story_calls = <<ui.run.topic>>
              /\ OnPage(Shown("story", ui.run.plan[4].content))
        /\ len(strip(ui.run.topic)) = 0 =>
              /\ ui.story_calls = <<>>
              /\ OnPage(Shown("warning", "Please enter a topic to generate a story!"))

\* the ages each band label names, the last band ending with the oldest
\* accepted age
BandAges ==
    <<[key |-> "5-8", lo |-> 5, hi |-> 8], [key |-> "9-12", lo |-> 9, hi |-> 12],
      [key |-> "13-17", lo |-> 13, hi |-> 17], [key |-> "18-25", lo |-> 18, hi |-> 25],
      [key |-> "26-40", lo |-> 26, hi |-> 40], [key |-> "41-50", lo |-> 41, hi |-> 50],
      [key |-> "50+", lo |-> 51, hi |-> MaxAge]>>

\* C15: for every age in 5..100 get_age_group returns the band whose label
\* contains the age (8 is "5-8", 9 is "9-12", 50 is "41-50", 51 is "50+"),
\* and get_age_config returns the bundle stored under that band's key, which
\* is the "18-25" bundle only for ages 18..25.
C15_BandTable ==
    /\ \A i \in 1..Len(probe.groups) : \A j \in 1..Len(BandAges) :
          probe.ages[i] \in BandAges[j].lo..BandAges[j].hi =>
             probe.groups[i] = [kind |-> "return", value |-> BandAges[j].key]
    /\ \A i \in 1..Len(probe.configs) : \A j \in 1..Len(BandAges) :
          probe.ages[i] \in BandAges[j].lo..BandAges[j].hi =>
             /\ probe.configs[i] = [kind |-> "return", value |-> age_configs[BandAges[j].key]]
             /\ probe.ages[i] \notin 18..25 => probe.configs[i].value # age_configs["18-25"]

\* both functions were applied to 50, the upper edge of "41-50", and
\* get_age_group to 8, the upper edge of "5-8"
C15_Witness ==
    /\ probe.ages = <<50, 8>>
    /\ Len(probe.groups) = 2
    /\ Len(probe.configs) = 1
    /\ probe.configs[1].value.name = "Mature Adults (41-50)"

\* the four age parameters of a stage's keyword arguments
AgeParams(kwargs) ==
    [age_group_name   |-> kwargs.age_group_name,
     complexity_level |-> kwargs.complexity_level,
     vocabulary_level |-> kwargs.vocabulary_level,
     concept_depth    |-> kwargs.concept_depth]

\* the name, complexity, vocabulary and concepts of the band of `age`
BandParams(age) ==
    [age_group_name   |-> <<age_configs[get_age_group(age)].name>>,
     complexity_level |-> age_configs[get_age_group(age)].complexity,
     vocabulary_level |-> age_configs[get_age_group(age)].vocabulary,
     concept_depth    |-> age_configs[get_age_group(age)].concepts]

\* the parameters of the simpler-language mode for the band of `age`
SimplerParams(age) ==
    [age_group_name   |-> <<age_configs[get_age_group(age)].name, " (Simpler Language Mode)">>,
     complexity_level |-> "very_simple",
     vocabulary_level |-> "basic",
     concept_depth    |-> "fundamental"]

\* the stages after the researcher invoked so far in the current call
LaterStages == {i \in 1..Len(calls) : i >= 2}

\* C16 as stated: in every create_story run the simplifier, storywriter and
\* educator receive the same four age parameters, these are the name,
\* complexity, vocabulary and concepts of the band of the requested age, and
\* that band's bundle is the age_config of the result.
C16_AsStated ==
    /\ \A i \in LaterStages : AgeParams(calls[i].kwargs) = BandParams(args.age)
    /\ pc = "returned" => outcome.value.age_config = age_configs[get_age_group(args.age)]

\* C16 (amended): in every create_story run the simplifier, storywriter and
\* educator receive the same four age parameters. With simpler_language
\* false these are the name, complexity, vocabulary and concepts of the band
\* of the requested age; with simpler_language true they are that band's
\* name followed by " (Simpler Language Mode)" and the fixed levels
\* very_simple, basic and fundamental. In both modes the age_config of the
\* result is the band's own bundle.
C16_SameAgeParams ==
    /\ \A i \in LaterStages :
          AgeParams(calls[i].kwargs) =
             IF args.simpler_language THEN SimplerParams(args.age) ELSE BandParams(args.age)
    /\ pc = "returned" => outcome.value.age_config = age_configs[get_age_group(args.age)]

\* a returned run in simpler-language mode for an age whose band has other
\* levels than the fixed ones, and whose three later stages were all invoked
C16_Witness ==
    /\ pc = "returned"
    /\ args.simpler_language
    /\ args.age = 26
    /\ Cardinality(LaterStages) = 3
    /\ BandParams(args.age).complexity_level # SimplerParams(args.age).complexity_level

\* the LLM answered the kept call and the current one as a function of the
\* prompt: the same agent with the same keyword arguments got the same answer
\* or the same failure
StubIsFunction ==
    \A i \in 1..Len(history.calls), j \in 1..Len(calls) :
       (/\ history.calls[i].agent = calls[j].agent
        /\ history.calls[i].kwargs = calls[j].kwargs) =>
          /\ history.calls[i].error = calls[j].error
          /\ history.calls[i].error = None =>
                history.calls[i].response = calls[j].response

\* what the LLM did in the current call, stage by stage; stages not invoked
\* are filled with a failure
Answers ==
    [i \in 1..4 |->
        IF i <= Len(calls) /\ calls[i].error = None
        THEN [kind |-> "str", content |-> calls[i].response]
        ELSE [kind |-> "raise",
              exc |-> IF i <= Len(calls) THEN calls[i].error
                      ELSE [type |-> "TimeoutError", message |-> Msg("TimeoutError", <<>>),
                            cause |-> None]]]

\* C17: create_story leaves the StoryBot as __init__ left it; a finished call
\* with the same topic, age and simpler_language as an earlier call, the LLM
\* answering as a function of the prompt, has the same outcome as the earlier
\* call; and after an earlier call that failed, the outcome of a finished
\* call is what create_story gives for its arguments and LLM answers alone.
C17_Stateless ==
    /\ bot = NewBot
    /\ (/\ pc \in {"returned", "raised"}
        /\ history # None
        /\ history.args = args
        /\ StubIsFunction) => outcome = history.outcome
    /\ (/\ pc \in {"returned", "raised"}
        /\ history # None
        /\ history.outcome.kind = "raise") =>
           outcome = create_story(args.topic, args.age, args.simpler_language,
                                  Answers).outcome

\* a call that returned a result after an earlier call with the same
\* arguments returned one, the LLM answering both as a function of the prompt
C17_Witness ==
    /\ pc = "returned"
    /\ history # None
    /\ history.args = args
    /\ history.outcome.kind = "return"
    /\ StubIsFunction
    /\ Len(calls) = 4

\* a call that returned a result after an earlier call failed in a stage
C17_WitnessAfterFailure ==
    /\ pc = "returned"
    /\ history # None
    /\ history.outcome.kind = "raise"
    /\ Len(history.calls) > 0

\* two names are equal up to the case of their letters
SameIgnoringCase(n, m) ==
    /\ Len(n) = Len(m)
    /\ \A i \in 1..Len(n) :
          \/ n[i] = m[i]
          \/ \E k \in 1..Len(UpperCase) :
                {n[i], m[i]} = {UpperCase[k], LowerCase[k]}

\* C19: get_agent_by_name returns the agent whose name equals the given name
\* up to letter case, each of the four names resolving to its own agent, and
\* None for a name equal to no agent's name; get_agent_info and the result's
\* agents_used list Researcher, Simplifier, Storywriter, Educator in this
\* order and nothing else.
C19_AgentLookup ==
    /\ \A i \in 1..Len(probe.found) :
          /\ \A k \in 1..Len(StageOrder) :
                SameIgnoringCase(probe.names[i], spelling(StageOrder[k])) =>
                   /\ probe.found[i] # None
                   /\ probe.found[i].name = StageOrder[k]
          /\ (\A k \in 1..Len(StageOrder) :
                ~SameIgnoringCase(probe.names[i], spelling(StageOrder[k]))) =>
                   probe.found[i] = None
    /\ probe.info # NotAsked =>
          /\ Len(probe.info.value) = Len(StageOrder)
          /\ \A k \in 1..Len(StageOrder) : probe.info.value[k][1] = StageOrder[k]
    /\ probe.used.kind = "return" => probe.used.value = StageOrder

\* RESEARCHER resolved to the Researcher, NonExistentAgent to None, and both
\* listings were produced
C19_Witness ==
    /\ Len(probe.found) = 2
    /\ lower(probe.names[1]) = lower(spelling("Researcher"))
    /\ probe.names[1] # spelling("Researcher")
    /\ probe.found[1] # None
    /\ probe.found[2] = None
    /\ Len(probe.names[2]) = 16
    /\ probe.info # NotAsked
    /\ probe.used.kind = "return"

\* C20: validate_topic accepts a topic exactly when the topic without its
\* leading and trailing whitespace has 3 to 200 characters; the message of a
\* rejection is "Topic cannot be empty." when nothing is left after
\* stripping and the length-range message otherwise; StoryBot.validate_topic
\* returns the boolean of that verdict.
C20_StrippedLengthOnly ==
    LET n == len(strip(probe.topic)) IN
    /\ probe.verdict # NotAsked =>
          /\ probe.verdict.value[1] = (n \in 3..200)
          /\ n \in 3..200 => probe.verdict.value[2] = None
          /\ n = 0 => probe.verdict.value[2] = Msg("Topic cannot be empty.", <<>>)
          /\ (n \in 1..2 \/ n > 200) =>
                probe.verdict.value[2] =
                   Msg("Topic must be between {min_topic_length} and {max_topic_length} characters.",
                       <<3, 200>>)
    /\ probe.valid # NotAsked => probe.valid.value = (n \in 3..200)

\* both functions accepted a topic of more than 200 characters whose
\* stripped form has exactly 200
C20_Witness ==
    /\ probe.verdict # NotAsked
    /\ probe.valid # NotAsked
    /\ len(probe.topic) > 200
    /\ len(strip(probe.topic)) = 200
    /\ probe.verdict.value[1]
    /\ probe.valid.value

\* the key of the band whose label contains `age`, for an age in 5..100
BandOf(age) ==
    BandAges[CHOOSE j \in 1..Len(BandAges) : age \in BandAges[j].lo..BandAges[j].hi].key

\* C21: in a create_story run with simpler_language true, every invoked
\* stage after the researcher receives complexity_level "very_simple",
\* vocabulary_level "basic", concept_depth "fundamental" and as
\* age_group_name the name of the band of the requested age followed by
\* " (Simpler Language Mode)"; the researcher receives the topic and nothing
\* else; and a returned result reports the band's own age_config and
\* simpler_language true.
C21_SimplerLanguageMode ==
    (pc # "idle" /\ args.simpler_language) =>
        /\ \A i \in LaterStages :
              /\ calls[i].kwargs.complexity_level = "very_simple"
              /\ calls[i].kwargs.vocabulary_level = "basic"
              /\ calls[i].kwargs.concept_depth = "fundamental"
              /\ calls[i].kwargs.age_group_name =
                    <<age_configs[BandOf(args.age)].name, " (Simpler Language Mode)">>
        /\ Len(calls) >= 1 => calls[1].kwargs = [topic |-> args.topic]
        /\ pc = "returned" =>
              /\ outcome.value.age_config = age_configs[BandOf(args.age)]
              /\ outcome.value.simpler_language = TRUE

\* a returned run in simpler-language mode for the oldest accepted age,
\* whose band has none of the three fixed levels
C21_Witness ==
    /\ pc = "returned"
    /\ args.simpler_language
    /\ args.age = 100
    /\ Len(calls) = 4
    /\ outcome.value.age_config.complexity # "very_simple"
    /\ outcome.value.age_config.vocabulary # "basic"
    /\ outcome.value.age_config.concepts # "fundamental"

\* whether validate_topic accepts the topic of the current call
TopicPasses == len(strip(args.topic)) \in min_topic_length..max_topic_length

\* C22: a create_story call whose topic is invalid and whose age is outside
\* 5..100 raises ValidationError with field "topic", and a ValidationError
\* with field "age" is raised only when the topic passed validation.
C22_TopicBeforeAge ==
    pc # "idle" =>
        /\ (~TopicPasses /\ (args.age < 5 \/ args.age > 100)) =>
              /\ Rejected("topic")
              /\ ~Rejected("age")
        /\ Rejected("age") => TopicPasses

\* a call with a topic too short and an age above 100 was rejected
C22_Witness ==
    /\ pc = "raised"
    /\ len(strip(args.topic)) \in 1..(min_topic_length - 1)
    /\ args.age > 100
    /\ outcome.exc.field = "topic"

\* a create_story call is inside its try block, at one of the four stages
InStage == pc \in {"researcher", "simplifier", "storywriter", "educator"}

\* the call has ended with a result record after four answered stages
EndedWithResult ==
    /\ pc = "returned"
    /\ outcome.kind = "return"
    /\ Len(calls) = 4
    /\ \A i \in 1..4 : calls[i].error = None

\* the call has ended with a ValidationError before any stage
EndedWithValidationError ==
    /\ pc = "raised"
    /\ outcome.kind = "raise"
    /\ outcome.exc.type = "ValidationError"
    /\ calls = <<>>

\* the call has ended with a PipelineError around the AgentError of the
\* stage that failed, the last one invoked
EndedWithPipelineError ==
    /\ pc = "raised"
    /\ outcome.kind = "raise"
    /\ outcome.exc.type = "PipelineError"
    /\ Len(calls) >= 1
    /\ calls[Len(calls)].error # None
    /\ \A i \in 1..(Len(calls) - 1) : calls[i].error = None
    /\ outcome.exc.cause.type = "AgentError"
    /\ outcome.exc.cause.agent_name = calls[Len(calls)].agent

\* a call that is not under way and not ended in one of the three ways has
\* not been made
OneOfThreeOutcomes ==
    \/ pc = "idle"
    \/ InStage /\ outcome = NoOutcome /\ \A i \in 1..Len(calls) : calls[i].error = None
    \/ EndedWithResult
    \/ EndedWithValidationError
    \/ EndedWithPipelineError

\* C23: with every LLM call returning or failing, every create_story call
\* that reached a stage eventually ends, and a call ends in exactly one of
\* three ways: a result record after four answered stages, a ValidationError
\* with no stage invoked, or a PipelineError whose cause is the AgentError
\* naming the stage that failed; create_story never raises LLMError.
C23_EndsInOneOfThree ==
    /\ [](OneOfThreeOutcomes /\ (outcome.kind = "raise" => outcome.exc.type # "LLMError"))
    /\ InStage ~> (EndedWithResult \/ EndedWithPipelineError)

\* a call whose last stage failed after three stages had answered
C23_Witness ==
    /\ EndedWithPipelineError
    /\ Len(calls) = 4
    /\ outcome.exc.cause.agent_name = "Educator"

====
